---- MODULE Spec2Model ----
(***************************************************************************)
(* Browser-session lifecycle of the OrangeHRM UI automation suite:         *)
(* BrowserManager (src/src/support/hooks.ts:140-267), CustomWorld          *)
(* (src/unnamed/part_002), the Cucumber hooks (src/src/support/hooks.ts:   *)
(* 1-134), the dashboard step definitions and the BasePage contract.       *)
(***************************************************************************)
EXTENDS Integers, Sequences, FiniteSets, TLC

\* Bound on the number of browsers, of contexts and of pages ever created.
MaxHandles == 2

\* A null handle (TypeScript null / undefined).
NULL == 0

VARIABLES
    browser,      \* BrowserManager.browser  (handle id, NULL when null)
    context,      \* BrowserManager.context
    page,         \* BrowserManager.page
    browsers,     \* browser processes launched so far: id -> open?
    contexts,     \* contexts created so far: id -> [browser, open, tracing]
    pages,        \* pages created so far: id -> [context, open]
    cfg,          \* BrowserConfig modes read from the environment
    last,         \* what the last BrowserManager operation did
    currentEnv,   \* ConfigManager.currentEnv
    worldEnv,     \* world parameter "environment" of the run ("" when not given)
    pc,           \* the hook or step the runner executes next
    scn,          \* the scenario being run (or the one just finished)
    world,        \* the scenario's CustomWorld: browser, context, page
    dashboardPage, \* module-level dashboardPage of the dashboard steps: its page
    stepRes,      \* result of the step body just run, for AfterStep
    art,          \* artifacts captured in the current scenario
    uses,         \* <<page, scenario>>: page handles the steps of a scenario used
    lastUse,      \* the last page-object call of a step
    po,           \* the last page-object method call: its inputs and its result
    wk,           \* the worker processes of a parallel run
    penv,         \* process.env: TEST_ENV and the <ENV>_BASE_URL variables
    econf,        \* the last getEnvironment()/getEnvironmentConfig() results
    summary       \* the JSON report on disk and the summary generated from it

mgrVars == <<browser, context, page, browsers, contexts, pages, cfg, last>>
runVars == <<currentEnv, worldEnv, pc, scn, world, dashboardPage, stepRes, art, uses, lastUse>>
auxVars == <<wk, penv, econf, summary>>
vars == <<mgrVars, runVars, po, auxVars>>

ScreenshotModes == {"off", "only-on-failure", "on"}
TraceModes == {"off", "retain-on-failure", "on", "on-first-retry"}

\* ConfigManager.getBrowserConfig: the screenshot and trace modes.
getBrowserConfig == [screenshot : ScreenshotModes, trace : TraceModes]

---------------------------------------------------------------------------
\* The session as one value: the manager's three fields and the Playwright
\* objects they may point to.

Cur ==
    [browser |-> browser, context |-> context, page |-> page,
     browsers |-> browsers, contexts |-> contexts, pages |-> pages]

Install(s) ==
    /\ browser' = s.browser
    /\ context' = s.context
    /\ page' = s.page
    /\ browsers' = s.browsers
    /\ contexts' = s.contexts
    /\ pages' = s.pages

InBounds(s) ==
    /\ Len(s.browsers) <= MaxHandles
    /\ Len(s.contexts) <= MaxHandles
    /\ Len(s.pages) <= MaxHandles

Handles(s) == <<s.browser, s.context, s.page>>

\* Result of a call: the session after it, whether it threw, what it returned.
Ok(s, ret) == [s |-> s, threw |-> FALSE, ret |-> ret]
Threw(s) == [s |-> s, threw |-> TRUE, ret |-> NULL]

---------------------------------------------------------------------------
\* Playwright objects, as the manager uses them.

\* chromium/firefox/webkit.launch(): a new open browser process.
Launch(s) == [s EXCEPT !.browsers = Append(@, TRUE)]

\* browser.newContext(): a new open context of browser b.
NewContext(s, b) ==
    [s EXCEPT !.contexts = Append(@, [browser |-> b, open |-> TRUE, tracing |-> FALSE])]

\* context.tracing.start()
TracingStart(s, c) == [s EXCEPT !.contexts[c].tracing = TRUE]

\* context.newPage(): a new open page of context c.
NewPage(s, c) == [s EXCEPT !.pages = Append(@, [context |-> c, open |-> TRUE])]

\* page.close()
PageClose(s, p) == [s EXCEPT !.pages[p].open = FALSE]

\* context.close(): closes the context and every page of it.
ContextClose(s, c) ==
    [s EXCEPT !.contexts[c].open = FALSE,
              !.contexts[c].tracing = FALSE,
              !.pages = [p \in DOMAIN @ |->
                           IF @[p].context = c THEN [@[p] EXCEPT !.open = FALSE] ELSE @[p]]]

\* browser.close(): closes the browser, its contexts and their pages.
BrowserClose(s, b) ==
    LET ofB(c) == s.contexts[c].browser = b IN
    [s EXCEPT !.browsers[b] = FALSE,
              !.contexts = [c \in DOMAIN @ |->
                              IF ofB(c) THEN [@[c] EXCEPT !.open = FALSE, !.tracing = FALSE]
                              ELSE @[c]],
              !.pages = [p \in DOMAIN @ |->
                           IF ofB(@[p].context) THEN [@[p] EXCEPT !.open = FALSE] ELSE @[p]]]

---------------------------------------------------------------------------
\* BrowserManager.  Every awaited Playwright call may reject; the ok*
\* arguments say which ones succeed.

\* initBrowser(): launches unconditionally and stores the new handle.
initBrowser(s, okLaunch) ==
    IF ~okLaunch THEN Threw(s)
    ELSE LET s1 == Launch(s)
             b == Len(s1.browsers)
         IN Ok([s1 EXCEPT !.browser = b], b)

\* createContext(): initBrowser() when there is no browser, then newContext,
\* then tracing.start when the trace mode is not 'off'.
createContext(s, trace, okLaunch, okContext, okTrace) ==
    LET r0 == IF s.browser = NULL THEN initBrowser(s, okLaunch) ELSE Ok(s, s.browser) IN
    IF r0.threw THEN Threw(r0.s)
    ELSE LET s0 == r0.s IN
         IF ~okContext \/ ~s0.browsers[s0.browser] THEN Threw(s0)
         ELSE LET s1 == NewContext(s0, s0.browser)
                  c == Len(s1.contexts)
                  s2 == [s1 EXCEPT !.context = c]
              IN IF trace = "off" THEN Ok(s2, c)
                 ELSE IF ~okTrace THEN Threw(s2)
                 ELSE Ok(TracingStart(s2, c), c)

\* createPage(): createContext() when there is no context, then newPage.
createPage(s, trace, okLaunch, okContext, okTrace, okPage) ==
    LET r0 == IF s.context = NULL
              THEN createContext(s, trace, okLaunch, okContext, okTrace)
              ELSE Ok(s, s.context) IN
    IF r0.threw THEN Threw(r0.s)
    ELSE LET s0 == r0.s IN
         IF ~okPage \/ ~s0.contexts[s0.context].open THEN Threw(s0)
         ELSE LET s1 == NewPage(s0, s0.context)
                  p == Len(s1.pages)
              IN Ok([s1 EXCEPT !.page = p], p)

\* closePage(): closes and forgets the page, when there is one.
closePage(s, okClose) ==
    IF s.page = NULL THEN Ok(s, NULL)
    ELSE IF ~okClose THEN Threw(s)
    ELSE Ok([PageClose(s, s.page) EXCEPT !.page = NULL], NULL)

\* closeContext(): closes and forgets the context, when there is one.
closeContext(s, okClose) ==
    IF s.context = NULL THEN Ok(s, NULL)
    ELSE IF ~okClose THEN Threw(s)
    ELSE Ok([ContextClose(s, s.context) EXCEPT !.context = NULL], NULL)

\* closeBrowser() forgetting to reset its browser field after the close.
closeBrowserOnly_keepsHandle(s, okClose) ==
    IF s.browser = NULL THEN Ok(s, NULL)
    ELSE IF ~okClose THEN Threw(s)
    ELSE Ok(BrowserClose(s, s.browser), NULL)

\* The browser part of closeBrowser(): hooks.ts:247-251.
closeBrowserOnly(s, okClose) ==
    IF s.browser = NULL THEN Ok(s, NULL)
    ELSE IF ~okClose THEN Threw(s)
    ELSE Ok([BrowserClose(s, s.browser) EXCEPT !.browser = NULL], NULL)

\* closeBrowser(): closePage, closeContext, then the browser.
closeBrowser(s, okPage, okContext, okBrowser) ==
    LET r1 == closePage(s, okPage) IN
    IF r1.threw THEN r1
    ELSE LET r2 == closeContext(r1.s, okContext) IN
         IF r2.threw THEN r2
         ELSE closeBrowserOnly(r2.s, okBrowser)

\* The close calls closeBrowser() issues on Playwright objects.
closeCalls(s, okPage, okContext, okBrowser) ==
    LET r1 == closePage(s, okPage)
        r2 == closeContext(r1.s, okContext)
    IN    (IF s.page # NULL THEN {"page"} ELSE {})
     \cup (IF ~r1.threw /\ r1.s.context # NULL THEN {"context"} ELSE {})
     \cup (IF ~r1.threw /\ ~r2.threw /\ r2.s.browser # NULL THEN {"browser"} ELSE {})

---------------------------------------------------------------------------
\* ConfigManager: the active environment.

Envs == {"dev", "qa", "prod"}

\* process.env.TEST_ENV and process.env.<ENV>_BASE_URL: not set, set to the
\* empty string, or set to a value.
TestEnvValues == {"unset", ""} \cup Envs
Prefixes == {"DEV", "QA", "PROD"}
VarValues == {"unset", "", "https://hrm.example/login"}
ProcessEnvs == [TEST_ENV : TestEnvValues, BASE_URL : [Prefixes -> VarValues]]

\* A run with TEST_ENV naming an environment and no URL variable set.
DefaultRun ==
    {p \in ProcessEnvs : p.TEST_ENV \in Envs /\ \A x \in Prefixes : p.BASE_URL[x] = "unset"}

\* The left operand of || being undefined or the empty string.
Falsy(v) == v \in {"unset", ""}

\* constructor: process.env.TEST_ENV || 'dev'.
ConfigManagerInit(p) == IF Falsy(p.TEST_ENV) THEN "dev" ELSE p.TEST_ENV

getEnvironment == currentEnv

\* String.prototype.toUpperCase on an environment name.
toUpperCase(name) ==
    CASE name = "dev" -> "DEV"
      [] name = "qa" -> "QA"
      [] name = "prod" -> "PROD"

DefaultBaseUrl == "https://opensource-demo.orangehrmlive.com/web/index.php/auth/login"

\* getEnvironmentConfig() with ?? in place of ||: the default only when the
\* variable is not set.
getEnvironmentConfig_nullish(p, cur) ==
    LET env == toUpperCase(cur) IN
    [prefix |-> env,
     baseUrl |-> IF p.BASE_URL[env] = "unset" THEN DefaultBaseUrl ELSE p.BASE_URL[env]]

\* getEnvironmentConfig(): process.env[`${env}_BASE_URL`] || the default, with
\* env the current name in upper case.
getEnvironmentConfig(p, cur) ==
    LET env == toUpperCase(cur) IN
    [prefix |-> env,
     baseUrl |-> IF Falsy(p.BASE_URL[env]) THEN DefaultBaseUrl ELSE p.BASE_URL[env]]

\* setEnvironment(env)
setEnvironment(env) == env

---------------------------------------------------------------------------
\* CustomWorld: the per-scenario carrier of the three handles.

\* Field initialisers of a new CustomWorld.
NewWorld == [browser |-> NULL, context |-> NULL, page |-> NULL, started |-> FALSE]

\* constructor: sets the environment when the world parameters name one.
WorldConstructorEnv == IF worldEnv # "" THEN setEnvironment(worldEnv) ELSE currentEnv

\* init() with createPage() called before createContext().
init_pageFirst(s, w, trace, okLaunch, okContext, okTrace, okPage) ==
    LET r1 == initBrowser(s, okLaunch) IN
    IF r1.threw THEN [s |-> r1.s, w |-> w, threw |-> TRUE]
    ELSE LET w1 == [w EXCEPT !.browser = r1.ret]
             r2 == createPage(r1.s, trace, okLaunch, okContext, okTrace, okPage)
         IN IF r2.threw THEN [s |-> r2.s, w |-> w1, threw |-> TRUE]
            ELSE LET w2 == [w1 EXCEPT !.page = r2.ret]
                     r3 == createContext(r2.s, trace, okLaunch, okContext, okTrace)
                 IN IF r3.threw THEN [s |-> r3.s, w |-> w2, threw |-> TRUE]
                    ELSE [s |-> r3.s,
                          w |-> [w2 EXCEPT !.context = r3.ret, !.started = TRUE],
                          threw |-> FALSE]

\* init(): initBrowser, createContext, createPage, then the start time.
init(s, w, trace, okLaunch, okContext, okTrace, okPage) ==
    LET r1 == initBrowser(s, okLaunch) IN
    IF r1.threw THEN [s |-> r1.s, w |-> w, threw |-> TRUE]
    ELSE LET w1 == [w EXCEPT !.browser = r1.ret]
             r2 == createContext(r1.s, trace, okLaunch, okContext, okTrace)
         IN IF r2.threw THEN [s |-> r2.s, w |-> w1, threw |-> TRUE]
            ELSE LET w2 == [w1 EXCEPT !.context = r2.ret]
                     r3 == createPage(r2.s, trace, okLaunch, okContext, okTrace, okPage)
                 IN IF r3.threw THEN [s |-> r3.s, w |-> w2, threw |-> TRUE]
                    ELSE [s |-> r3.s,
                          w |-> [w2 EXCEPT !.page = r3.ret, !.started = TRUE],
                          threw |-> FALSE]

\* cleanup(): BrowserManager.closeBrowser().
cleanup(s, okPage, okContext, okBrowser) == closeBrowser(s, okPage, okContext, okBrowser)

\* One call on a Playwright object, as the hooks' history keeps it: the call
\* and whether the page and the context the world holds were still open when
\* it was made.
Live(s, w) ==
    /\ w.page # NULL => s.pages[w.page].open
    /\ w.context # NULL => s.contexts[w.context].open
Tracing(s, w) == w.context # NULL /\ s.contexts[w.context].tracing
Made(s, w, call) == [call |-> call, live |-> Live(s, w), tracing |-> Tracing(s, w)]

\* page.screenshot(): rejects on a closed page, or for any other reason.
Screenshot(s, p, okShot) == okShot /\ s.pages[p].open

\* takeScreenshot() with its try/catch removed.
takeScreenshot_noCatch(s, w, okShot) ==
    IF w.page = NULL THEN [threw |-> FALSE, buf |-> FALSE, calls |-> <<>>]
    ELSE [threw |-> ~Screenshot(s, w.page, okShot), buf |-> Screenshot(s, w.page, okShot),
          calls |-> <<Made(s, w, "screenshot")>>]

\* takeScreenshot(): undefined when the page is null; the screenshot in a try
\* whose catch logs and returns undefined.
takeScreenshot(s, w, okShot) ==
    IF w.page = NULL THEN [threw |-> FALSE, buf |-> FALSE, calls |-> <<>>]
    ELSE IF Screenshot(s, w.page, okShot)
         THEN [threw |-> FALSE, buf |-> TRUE, calls |-> <<Made(s, w, "screenshot")>>]
         ELSE [threw |-> FALSE, buf |-> FALSE, calls |-> <<Made(s, w, "screenshot")>>]

\* attachScreenshot(): attaches exactly when takeScreenshot gave a buffer.
attachScreenshot(s, w, okShot) ==
    LET r == takeScreenshot(s, w, okShot) IN
    [threw |-> r.threw, attached |-> ~r.threw /\ r.buf, calls |-> r.calls]

\* saveTrace() without the restart of tracing.
saveTrace_noRestart(s, w, trace, okStop, okStart) ==
    IF w.context = NULL THEN [s |-> s, saved |-> FALSE, threw |-> FALSE, calls |-> <<>>]
    ELSE LET c == w.context
             stop == Made(s, w, "tracing.stop")
         IN
         IF ~okStop \/ ~s.contexts[c].open \/ ~s.contexts[c].tracing
         THEN [s |-> s, saved |-> FALSE, threw |-> FALSE, calls |-> <<stop>>]
         ELSE [s |-> [s EXCEPT !.contexts[c].tracing = FALSE],
               saved |-> TRUE, threw |-> FALSE, calls |-> <<stop>>]

\* saveTrace(): returns when the context is null; tracing.stop, then
\* tracing.start again unless the mode is 'off', in a try whose catch logs.
saveTrace(s, w, trace, okStop, okStart) ==
    IF w.context = NULL THEN [s |-> s, saved |-> FALSE, threw |-> FALSE, calls |-> <<>>]
    ELSE LET c == w.context
             stop == Made(s, w, "tracing.stop")
         IN
         IF ~okStop \/ ~s.contexts[c].open \/ ~s.contexts[c].tracing
         THEN [s |-> s, saved |-> FALSE, threw |-> FALSE, calls |-> <<stop>>]
         ELSE LET s1 == [s EXCEPT !.contexts[c].tracing = FALSE] IN
              IF trace = "off"
              THEN [s |-> s1, saved |-> TRUE, threw |-> FALSE, calls |-> <<stop>>]
              ELSE [s |-> IF okStart THEN TracingStart(s1, c) ELSE s1,
                    saved |-> TRUE, threw |-> FALSE,
                    calls |-> <<stop, Made(s1, w, "tracing.start")>>]

---------------------------------------------------------------------------
\* Record of the last operation, for the properties that speak of one call.

NoOp ==
    [op |-> "none", threw |-> FALSE, ret |-> NULL, before |-> <<NULL, NULL, NULL>>,
     launched |-> 0, newContexts |-> 0, newPages |-> 0, closes |-> {}, afterClose |-> FALSE]

Did(op, s, r, closes) ==
    [op |-> op, threw |-> r.threw, ret |-> r.ret, before |-> Handles(s),
     launched |-> Len(r.s.browsers) - Len(s.browsers),
     newContexts |-> Len(r.s.contexts) - Len(s.contexts),
     newPages |-> Len(r.s.pages) - Len(s.pages), closes |-> closes,
     afterClose |-> (last.op = "closeBrowser" /\ ~last.threw)]

\* BrowserManager's field initialisers; nothing launched yet.
MgrInit ==
    /\ browser = NULL
    /\ context = NULL
    /\ page = NULL
    /\ browsers = <<>>
    /\ contexts = <<>>
    /\ pages = <<>>
    /\ last = NoOp

NoScenario ==
    [id |-> 0, tags |-> {}, status |-> "passed", stepsRun |-> 0,
     initThrew |-> FALSE, afterThrew |-> FALSE, base |-> <<0, 0, 0>>,
     skipBy |-> "none", skipLive |-> FALSE, retry |-> FALSE]

NoArt ==
    [stepShot |-> FALSE, shot |-> FALSE, trace |-> FALSE, calls |-> <<>>,
     captureThrew |-> FALSE, cleanupRan |-> FALSE, saveTraceRet |-> "none"]

NoUse == [scenario |-> 0, page |-> NULL, worldPage |-> NULL]

NoCall ==
    [method |-> "none", elem |-> "visible", fault |-> FALSE, matches |-> 0,
     res |-> [threw |-> FALSE, ret |-> "void", waits |-> 0, acts |-> 0, done |-> FALSE]]

\* The runner before the first scenario.
\* Number of worker processes of a parallel run.
MaxWorkers == 2
Workers == 1..MaxWorkers

\* No worker process started: no module loaded, nothing created.
NoWorkers ==
    [started |-> {},
     instance |-> [w \in Workers |-> NULL],
     mgrs |-> <<>>,
     browsers |-> <<>>, contexts |-> <<>>, pages |-> <<>>,
     ownB |-> <<>>, ownC |-> <<>>, ownP |-> <<>>,
     pcw |-> [w \in Workers |-> "idle"],
     runs |-> [w \in Workers |-> 0],
     world |-> [w \in Workers |-> NewWorld],
     used |-> {}]

\* No ConfigManager call made yet.
NoConf ==
    [atStart |-> "none", inScenario |-> {}, worlds |-> 0, prefix |-> "none",
     baseUrl |-> "none"]

\* No JSON report on disk, no summary written.
NoSummary == [total |-> 0, passed |-> 0, failed |-> 0, skipped |-> 0, written |-> FALSE]
NoReport == [exists |-> FALSE, features |-> <<>>, out |-> NoSummary]

\* The runner before the first scenario, whatever report is on disk.
RunStart ==
    /\ currentEnv = ConfigManagerInit(penv)
    /\ pc = "Idle"
    /\ scn = NoScenario
    /\ world = NewWorld
    /\ dashboardPage = NULL
    /\ stepRes = "none"
    /\ art = NoArt
    /\ uses = {}
    /\ lastUse = NoUse
    /\ po = NoCall
    /\ wk = NoWorkers
    /\ econf = NoConf

RunInit == RunStart /\ summary = NoReport

\* Where a call may reject: at no Playwright call, or at exactly one of them.
CreateFailures == {"none", "launch", "newContext", "tracing", "newPage"}
CloseFailures == {"none", "page", "context", "browser"}

OpInitBrowser ==
    \E f \in {"none", "launch"} :
        LET r == initBrowser(Cur, f # "launch") IN
        /\ InBounds(r.s)
        /\ Install(r.s)
        /\ last' = Did("initBrowser", Cur, r, {})
        /\ UNCHANGED <<cfg, runVars, po, auxVars>>

OpCreateContext ==
    \E f \in CreateFailures \ {"newPage"} :
        LET r == createContext(Cur, cfg.trace, f # "launch", f # "newContext", f # "tracing") IN
        /\ InBounds(r.s)
        /\ Install(r.s)
        /\ last' = Did("createContext", Cur, r, {})
        /\ UNCHANGED <<cfg, runVars, po, auxVars>>

OpCreatePage ==
    \E f \in CreateFailures :
        LET r == createPage(Cur, cfg.trace, f # "launch", f # "newContext", f # "tracing",
                            f # "newPage") IN
        /\ InBounds(r.s)
        /\ Install(r.s)
        /\ last' = Did("createPage", Cur, r, {})
        /\ UNCHANGED <<cfg, runVars, po, auxVars>>

OpClosePage ==
    \E f \in {"none", "page"} :
        LET r == closePage(Cur, f # "page") IN
        /\ Install(r.s)
        /\ last' = Did("closePage", Cur, r, IF page # NULL THEN {"page"} ELSE {})
        /\ UNCHANGED <<cfg, runVars, po, auxVars>>

OpCloseContext ==
    \E f \in {"none", "context"} :
        LET r == closeContext(Cur, f # "context") IN
        /\ Install(r.s)
        /\ last' = Did("closeContext", Cur, r, IF context # NULL THEN {"context"} ELSE {})
        /\ UNCHANGED <<cfg, runVars, po, auxVars>>

OpCloseBrowser ==
    \E f \in CloseFailures :
        LET r == closeBrowser(Cur, f # "page", f # "context", f # "browser") IN
        /\ Install(r.s)
        /\ last' = Did("closeBrowser", Cur, r,
                       closeCalls(Cur, f # "page", f # "context", f # "browser"))
        /\ UNCHANGED <<cfg, runVars, po, auxVars>>

OpsInit ==
    /\ penv \in DefaultRun
    /\ MgrInit
    /\ RunInit
    /\ worldEnv = ""
    /\ cfg \in {c \in getBrowserConfig : c.screenshot = "only-on-failure"}

OpsNext ==
    \/ OpInitBrowser
    \/ OpCreateContext
    \/ OpCreatePage
    \/ OpClosePage
    \/ OpCloseContext
    \/ OpCloseBrowser

\* Any sequence of the BrowserManager's public operations.
SpecOps == OpsInit /\ [][OpsNext]_vars

---------------------------------------------------------------------------
\* The Cucumber runner of one worker: per scenario the Before hooks that
\* apply, in registration order, then the steps, then the After hook.  A
\* Before hook that fails or returns 'skipped' makes the runner skip the
\* remaining Before hooks and every step; After hooks always run.

Tags == {"@smoke", "@regression", "@skip", "@wip", "@dev-only", "@prod-only"}

\* Bounds on a scenario: its number of tags and of steps (at least one).
MaxTags == 1
MaxSteps == 2

TagSets == {T \in SUBSET Tags : Cardinality(T) <= MaxTags}

\* The Before hooks in the order hooks.ts registers them.
HookOrder ==
    <<"Before", "BeforeSmoke", "BeforeRegression", "BeforeSkip", "BeforeDevOnly",
      "BeforeProdOnly">>

\* The tag expressions with '@skip' in place of '@skip or @wip'.
Applies_skipOnly(h, tags) ==
    CASE h = "Before" -> TRUE
      [] h = "BeforeSmoke" -> "@smoke" \in tags
      [] h = "BeforeRegression" -> "@regression" \in tags
      [] h = "BeforeSkip" -> "@skip" \in tags
      [] h = "BeforeDevOnly" -> "@dev-only" \in tags
      [] h = "BeforeProdOnly" -> "@prod-only" \in tags

\* The tag expression of each Before hook.
Applies(h, tags) ==
    CASE h = "Before" -> TRUE
      [] h = "BeforeSmoke" -> "@smoke" \in tags
      [] h = "BeforeRegression" -> "@regression" \in tags
      [] h = "BeforeSkip" -> "@skip" \in tags \/ "@wip" \in tags
      [] h = "BeforeDevOnly" -> "@dev-only" \in tags
      [] h = "BeforeProdOnly" -> "@prod-only" \in tags

\* What the runner executes after Before hook number i ended with `status`.
AfterHook(i, tags, status) ==
    IF status # "passed" THEN "After"
    ELSE LET later == {j \in (i + 1)..Len(HookOrder) : Applies(HookOrder[j], tags)} IN
         IF later = {} THEN "Step"
         ELSE HookOrder[CHOOSE j \in later : \A k \in later : j <= k]

\* A new scenario: a new CustomWorld is constructed for it.
StartScenario ==
    /\ pc = "Idle"
    /\ scn.id < MaxHandles
    /\ \E tags \in TagSets :
        scn' = [NoScenario EXCEPT !.id = scn.id + 1, !.tags = tags,
                                  !.base = <<Len(browsers), Len(contexts), Len(pages)>>]
    /\ world' = NewWorld
    /\ currentEnv' = WorldConstructorEnv
    /\ art' = NoArt
    /\ stepRes' = "none"
    /\ lastUse' = NoUse
    /\ pc' = "Before"
    /\ UNCHANGED <<po, auxVars, mgrVars, worldEnv, dashboardPage, uses>>

\* Before({ timeout: 60000 }): this.init().
Before ==
    /\ pc = "Before"
    /\ \E f \in CreateFailures :
        LET r == init(Cur, world, cfg.trace, f # "launch", f # "newContext", f # "tracing",
                      f # "newPage")
            st == IF r.threw THEN "failed" ELSE "passed"
        IN /\ Install(r.s)
           /\ world' = r.w
           /\ scn' = [scn EXCEPT !.status = st, !.initThrew = r.threw]
           /\ pc' = AfterHook(1, scn.tags, st)
    /\ UNCHANGED <<po, auxVars, cfg, last, currentEnv, worldEnv, dashboardPage, stepRes, art, uses, lastUse>>

\* Before({ tags: '@smoke' }): logs.
BeforeSmoke ==
    /\ pc = "BeforeSmoke"
    /\ pc' = AfterHook(2, scn.tags, "passed")
    /\ UNCHANGED <<po, auxVars, mgrVars, currentEnv, worldEnv, scn, world, dashboardPage, stepRes, art,
                   uses, lastUse>>

\* Before({ tags: '@regression' }): logs.
BeforeRegression ==
    /\ pc = "BeforeRegression"
    /\ pc' = AfterHook(3, scn.tags, "passed")
    /\ UNCHANGED <<po, auxVars, mgrVars, currentEnv, worldEnv, scn, world, dashboardPage, stepRes, art,
                   uses, lastUse>>

\* The world holds a browser, a context and a page, all three open.
SessionLive(s, w) ==
    /\ w.browser # NULL /\ s.browsers[w.browser]
    /\ w.context # NULL /\ s.contexts[w.context].open
    /\ w.page # NULL /\ s.pages[w.page].open

\* The scenario after tag hook h returned `result`: a 'skipped' result is
\* kept with the hook that gave it and the state of the session at that moment.
Signalled(h, result) ==
    IF result = "skipped"
    THEN [scn EXCEPT !.status = "skipped", !.skipBy = h, !.skipLive = SessionLive(Cur, world)]
    ELSE [scn EXCEPT !.status = result]

\* Before({ tags: '@skip or @wip' }): returns 'skipped'.
BeforeSkip ==
    /\ pc = "BeforeSkip"
    /\ scn' = Signalled("BeforeSkip", "skipped")
    /\ pc' = AfterHook(4, scn.tags, "skipped")
    /\ UNCHANGED <<po, auxVars, mgrVars, currentEnv, worldEnv, world, dashboardPage, stepRes, art, uses,
                   lastUse>>

\* An environment-specific hook that never signals a skip.
EnvHookResult_neverSkips(only) == "passed"

\* What an environment-specific hook returns for environment `only`.
EnvHookResult(only) == IF getEnvironment # only THEN "skipped" ELSE "passed"

\* Before({ tags: '@dev-only' }): returns 'skipped' unless the environment is 'dev'.
BeforeDevOnly ==
    /\ pc = "BeforeDevOnly"
    /\ scn' = Signalled("BeforeDevOnly", EnvHookResult("dev"))
    /\ pc' = AfterHook(5, scn.tags, EnvHookResult("dev"))
    /\ UNCHANGED <<po, auxVars, mgrVars, currentEnv, worldEnv, world, dashboardPage, stepRes, art, uses,
                   lastUse>>

\* Before({ tags: '@prod-only' }): returns 'skipped' unless the environment is 'prod'.
BeforeProdOnly ==
    /\ pc = "BeforeProdOnly"
    /\ scn' = Signalled("BeforeProdOnly", EnvHookResult("prod"))
    /\ pc' = AfterHook(6, scn.tags, EnvHookResult("prod"))
    /\ UNCHANGED <<po, auxVars, mgrVars, currentEnv, worldEnv, world, dashboardPage, stepRes, art, uses,
                   lastUse>>

\* The step definitions, by the page object they call:
\*   "fresh"           const po = new XPage(this.page!)
\*   "dashboardGiven"  dashboardPage = new DashboardPage(this.page!)
\*   "dashboardCached" dashboardPage = dashboardPage || new DashboardPage(this.page!)
StepKinds == {"fresh", "dashboardGiven", "dashboardCached"}

\* The page the step's page object was constructed with.
PageObjectPage(kind) ==
    IF kind = "dashboardCached" /\ dashboardPage # NULL THEN dashboardPage ELSE world.page

\* One step body.  A call on a closed page fails the step; otherwise the
\* application decides.
Step ==
    /\ pc = "Step"
    /\ \E kind \in StepKinds, outcome \in {"passed", "failed"} :
        LET pg == PageObjectPage(kind)
            res == IF pages[pg].open THEN outcome ELSE "failed"
        IN /\ dashboardPage' = IF kind = "fresh" THEN dashboardPage ELSE pg
           /\ stepRes' = res
           /\ scn' = [scn EXCEPT !.stepsRun = @ + 1,
                                 !.status = IF res = "failed" THEN "failed" ELSE @]
           /\ uses' = uses \cup {<<pg, scn.id>>}
           /\ lastUse' = [scenario |-> scn.id, page |-> pg, worldPage |-> world.page]
    /\ pc' = "AfterStep"
    /\ UNCHANGED <<po, auxVars, mgrVars, currentEnv, worldEnv, world, art>>

\* Body of the AfterStep hook: a screenshot when the step failed.
afterStepHook(s, w, res, okShot) ==
    IF res = "failed" THEN attachScreenshot(s, w, okShot)
    ELSE [threw |-> FALSE, attached |-> FALSE, calls |-> <<>>]

\* AfterStep.  After a failed step the runner skips the steps that remain; the
\* scenario has at most MaxSteps.
AfterStep ==
    /\ pc = "AfterStep"
    /\ \E okShot \in BOOLEAN :
        LET r == afterStepHook(Cur, world, stepRes, okShot) IN
        art' = [art EXCEPT !.stepShot = @ \/ r.attached,
                           !.calls = @ \o r.calls,
                           !.captureThrew = @ \/ r.threw]
    /\ \E more \in BOOLEAN :
        pc' = IF stepRes # "failed" /\ more /\ scn.stepsRun < MaxSteps THEN "Step" ELSE "After"
    /\ UNCHANGED <<po, auxVars, mgrVars, currentEnv, worldEnv, scn, world, dashboardPage, stepRes, uses,
                   lastUse>>

NoCapture(s) == [s |-> s, saved |-> FALSE, attached |-> FALSE, threw |-> FALSE, calls |-> <<>>]

\* What saveTrace() left behind when it returned on an open context.
TracingAfter(t, w) ==
    IF t.calls = <<>> \/ t.threw \/ ~t.s.contexts[w.context].open THEN "none"
    ELSE IF t.s.contexts[w.context].tracing THEN "active" ELSE "inactive"

\* The After hook with cleanup() moved in front of the artifact capture.
afterHook_cleanupFirst(s, w, c, status, okShot, okStop, okStart, okPage, okContext, okBrowser) ==
    LET failed == status = "failed"
        r == cleanup(s, okPage, okContext, okBrowser)
        a == IF failed /\ c.screenshot \in {"only-on-failure", "on"}
             THEN attachScreenshot(r.s, w, okShot) ELSE NoCapture(r.s)
        t == IF failed /\ c.trace \in {"retain-on-failure", "on"}
             THEN saveTrace(r.s, w, c.trace, okStop, okStart) ELSE NoCapture(r.s)
    IN [s |-> t.s, shot |-> a.attached, trace |-> t.saved, captureThrew |-> FALSE,
        cleanupRan |-> TRUE, threw |-> r.threw, saveTraceRet |-> TracingAfter(t, w),
        calls |-> <<Made(s, w, "closeBrowser")>> \o a.calls \o t.calls]

\* The After hook without its test of the scenario's status.
afterHook_anyStatus(s, w, c, status, okShot, okStop, okStart, okPage, okContext, okBrowser) ==
    LET a == IF c.screenshot \in {"only-on-failure", "on"}
             THEN attachScreenshot(s, w, okShot) ELSE NoCapture(s)
        t == IF ~a.threw /\ c.trace \in {"retain-on-failure", "on"}
             THEN saveTrace(s, w, c.trace, okStop, okStart) ELSE NoCapture(s)
        captureThrew == a.threw \/ t.threw
        r == IF captureThrew THEN Threw(t.s) ELSE cleanup(t.s, okPage, okContext, okBrowser)
    IN [s |-> r.s, shot |-> a.attached, trace |-> t.saved, captureThrew |-> captureThrew,
        cleanupRan |-> ~captureThrew, threw |-> r.threw, saveTraceRet |-> TracingAfter(t, w),
        calls |-> a.calls \o t.calls
                  \o (IF captureThrew THEN <<>> ELSE <<Made(t.s, w, "closeBrowser")>>)]

\* Body of the After hook: for a failed scenario a screenshot and a trace as
\* configured, then cleanup().  A capture that threw would end the hook there.
afterHook(s, w, c, status, okShot, okStop, okStart, okPage, okContext, okBrowser) ==
    LET failed == status = "failed"
        a == IF failed /\ c.screenshot \in {"only-on-failure", "on"}
             THEN attachScreenshot(s, w, okShot) ELSE NoCapture(s)
        t == IF ~a.threw /\ failed /\ c.trace \in {"retain-on-failure", "on"}
             THEN saveTrace(s, w, c.trace, okStop, okStart) ELSE NoCapture(s)
        captureThrew == a.threw \/ t.threw
        r == IF captureThrew THEN Threw(t.s) ELSE cleanup(t.s, okPage, okContext, okBrowser)
    IN [s |-> r.s, shot |-> a.attached, trace |-> t.saved, captureThrew |-> captureThrew,
        cleanupRan |-> ~captureThrew, threw |-> r.threw, saveTraceRet |-> TracingAfter(t, w),
        calls |-> a.calls \o t.calls
                  \o (IF captureThrew THEN <<>> ELSE <<Made(t.s, w, "closeBrowser")>>)]

\* After.
After ==
    /\ pc = "After"
    /\ \E okShot \in BOOLEAN, tf \in {"none", "stop", "start"}, f \in CloseFailures :
        LET r == afterHook(Cur, world, cfg, scn.status, okShot, tf # "stop", tf # "start",
                           f # "page", f # "context", f # "browser")
        IN /\ Install(r.s)
           /\ art' = [art EXCEPT !.shot = r.shot, !.trace = r.trace,
                                 !.calls = @ \o r.calls,
                                 !.captureThrew = @ \/ r.captureThrew,
                                 !.cleanupRan = r.cleanupRan,
                                 !.saveTraceRet = r.saveTraceRet]
           /\ scn' = [scn EXCEPT !.afterThrew = r.threw,
                                 !.status = IF r.threw THEN "failed" ELSE @]
    /\ pc' = "Idle"
    /\ UNCHANGED <<po, auxVars, cfg, last, currentEnv, worldEnv, world, dashboardPage, stepRes, uses,
                   lastUse>>

\* World parameters of the run: no environment, or one of the environments (which
\* then replaces the name TEST_ENV gave: one value of TEST_ENV stands for all).
WorldEnvs == {"", "prod"}

Init ==
    /\ penv \in DefaultRun
    /\ MgrInit
    /\ RunInit
    /\ worldEnv \in WorldEnvs
    /\ worldEnv # "" => penv.TEST_ENV = "dev"
    /\ cfg \in getBrowserConfig

Next ==
    \/ StartScenario
    \/ Before
    \/ BeforeSmoke
    \/ BeforeRegression
    \/ BeforeSkip
    \/ BeforeDevOnly
    \/ BeforeProdOnly
    \/ Step
    \/ AfterStep
    \/ After

\* Scenarios run one after the other through the hooks.
Spec == Init /\ [][Next]_vars

\* A run with retries enabled: a failed scenario may be attempted again.  The
\* attempt is the same scenario, started like any other: a new CustomWorld
\* is constructed and every hook runs again.
RetryScenario ==
    /\ pc = "Idle"
    /\ scn.id > 0 /\ scn.id < MaxHandles
    /\ scn.status = "failed"
    /\ scn' = [NoScenario EXCEPT !.id = scn.id + 1, !.tags = scn.tags, !.retry = TRUE,
                                 !.base = <<Len(browsers), Len(contexts), Len(pages)>>]
    /\ world' = NewWorld
    /\ currentEnv' = WorldConstructorEnv
    /\ art' = NoArt
    /\ stepRes' = "none"
    /\ lastUse' = NoUse
    /\ pc' = "Before"
    /\ UNCHANGED <<po, auxVars, mgrVars, worldEnv, dashboardPage, uses>>

\* The run with retries: the 'dev' environment, screenshots on failure, traces
\* off or kept on failure.
RetryInit ==
    /\ penv \in {p \in DefaultRun : p.TEST_ENV = "dev"}
    /\ MgrInit
    /\ RunInit
    /\ worldEnv = ""
    /\ cfg \in [screenshot : {"only-on-failure"}, trace : {"off", "retain-on-failure"}]

RetryNext ==
    \/ Next
    \/ RetryScenario

SpecRetry == RetryInit /\ [][RetryNext]_vars

---------------------------------------------------------------------------
\* Page objects.  A call is decided by the state of its target element, by
\* whether the underlying Playwright call faults (a closed page, a lost
\* connection) and, for a count, by the number of matching elements.

Elems == {"absent", "hidden", "visible"}

\* Bound on the number of elements a locator matches.
MaxMatches == 2

\* Result of a call: threw, the value returned, the visibility waits and the
\* click/fill/select calls issued, and whether the click/fill/select was done.
Ret(v, waits, acts, done) ==
    [threw |-> FALSE, ret |-> v, waits |-> waits, acts |-> acts, done |-> done]
Raise(waits, acts) ==
    [threw |-> TRUE, ret |-> "error", waits |-> waits, acts |-> acts, done |-> FALSE]

\* locator.waitFor({ state: 'visible' }) and the actions resolve on a visible
\* element only; otherwise they reject with a timeout.
Resolves(e, fault) == e = "visible" /\ ~fault

\* BasePage.waitForElement
waitForElement(e, fault) ==
    IF Resolves(e, fault) THEN Ret("void", 1, 0, FALSE) ELSE Raise(1, 0)

\* The shape of click, fill, type and selectOption with the wait attempted a
\* second time after it timed out.
WaitThenAct_retries(e, fault) ==
    IF waitForElement(e, fault).threw
    THEN (IF waitForElement(e, fault).threw THEN Raise(2, 0) ELSE Ret("void", 2, 1, TRUE))
    ELSE IF Resolves(e, fault) THEN Ret("void", 1, 1, TRUE)
    ELSE Raise(1, 1)

\* The shape shared by click, fill, type and selectOption: wait, act, log;
\* the catch logs and rethrows.
WaitThenAct(e, fault) ==
    IF waitForElement(e, fault).threw THEN Raise(1, 0)
    ELSE IF Resolves(e, fault) THEN Ret("void", 1, 1, TRUE)
    ELSE Raise(1, 1)

\* BasePage.click
click(e, fault) == WaitThenAct(e, fault)

\* BasePage.fill
fill(e, fault) == WaitThenAct(e, fault)

\* BasePage.type
type(e, fault) == WaitThenAct(e, fault)

\* BasePage.selectOption
selectOption(e, fault) == WaitThenAct(e, fault)

\* BasePage.getText: waits, reads; the catch logs and rethrows.
getText(e, fault) ==
    IF waitForElement(e, fault).threw THEN Raise(1, 0) ELSE Ret("text", 1, 0, FALSE)

\* BasePage.getAttribute, first definition: waits; the catch rethrows.
getAttributeWaiting(e, fault) ==
    IF waitForElement(e, fault).threw THEN Raise(1, 0) ELSE Ret("value", 1, 0, FALSE)

\* BasePage.getAttribute, second definition (the one in effect: a later class
\* member replaces an earlier one of the same name): the catch returns null.
getAttribute(e, fault) ==
    IF fault \/ e = "absent" THEN Ret("null", 0, 0, FALSE) ELSE Ret("value", 0, 0, FALSE)

\* BasePage.isVisible: the catch returns false.
isVisible(e, fault) ==
    IF fault THEN Ret("false", 0, 0, FALSE)
    ELSE Ret(IF e = "visible" THEN "true" ELSE "false", 0, 0, FALSE)

\* BasePage.isEnabled: the catch returns false.
isEnabled(e, fault) ==
    IF fault \/ e = "absent" THEN Ret("false", 0, 0, FALSE) ELSE Ret("true", 0, 0, FALSE)

\* LoginPage.getErrorMessage: waitForElement, then getText; no catch.
getErrorMessage(e, fault) ==
    IF waitForElement(e, fault).threw THEN Raise(1, 0)
    ELSE LET r == getText(e, fault) IN
         IF r.threw THEN Raise(2, 0) ELSE Ret(r.ret, 2, 0, FALSE)

\* LoginPage.getValidationErrorsCount: locator.count(); no catch.
getValidationErrorsCount(n, fault) ==
    IF fault THEN Raise(0, 0) ELSE Ret(ToString(n), 0, 0, FALSE)

\* DashboardPage.getDashboardWidgetCount: locator.count(); no catch.
getDashboardWidgetCount(n, fault) ==
    IF fault THEN Raise(0, 0) ELSE Ret(ToString(n), 0, 0, FALSE)

\* UserManagementPage.getResultsCount: locator.count(); the catch returns 0.
getResultsCount(n, fault) ==
    IF fault THEN Ret("0", 0, 0, FALSE) ELSE Ret(ToString(n), 0, 0, FALSE)

\* AddUserPage.selectEmployeeFromSuggestions: the wait for the dropdown is
\* swallowed; with no matching suggestion it returns without clicking;
\* otherwise it waits for the suggestion and clicks it.
selectEmployeeFromSuggestions(e, n, fault) ==
    IF fault THEN Raise(1, 0)
    ELSE IF n = 0 THEN Ret("void", 1, 0, FALSE)
    ELSE IF waitForElement(e, fault).threw THEN Raise(2, 0)
    ELSE LET r == click(e, fault) IN
         IF r.threw THEN Raise(2 + r.waits, r.acts) ELSE Ret("void", 2 + r.waits, r.acts, TRUE)

\* When('I click on the {string} menu item'), unnamed/part_006: the click is
\* in a try whose catch only warns.
clickMenuItemStep(e, fault) ==
    IF Resolves(e, fault) THEN Ret("void", 0, 1, TRUE) ELSE Ret("void", 0, 1, FALSE)

\* When('I click on the {string} menu item'), dashboard.steps.ts: no catch.
clickMenuItemStepStrict(e, fault) ==
    IF Resolves(e, fault) THEN Ret("void", 0, 1, TRUE) ELSE Raise(0, 1)

\* LoginPage.enterUsername: fill on the username input.
enterUsername(e, fault) == fill(e, fault)

\* LoginPage.enterPassword: fill on the password input.
enterPassword(e, fault) == fill(e, fault)

\* LoginPage.clickLoginButton: click; the wait for the network to become idle
\* has a catch that only warns.
clickLoginButton(e, fault) == click(e, fault)

\* Result of login(): as for any call, with the atomic actions it started and
\* the one whose error it threw.
LoginRes(r, waits, acts, steps) ==
    [threw |-> r.threw, ret |-> r.ret, waits |-> waits + r.waits, acts |-> acts + r.acts,
     done |-> r.done, steps |-> steps,
     error |-> IF r.threw THEN steps[Len(steps)] ELSE "none"]

\* login() going on to the password after a username that could not be filled.
login_goesOn(eU, eP, eB, fault) ==
    LET r1 == enterUsername(eU, fault)
        r2 == enterPassword(eP, fault)
    IN IF r2.threw
       THEN LoginRes(r2, r1.waits, r1.acts, <<"enterUsername", "enterPassword">>)
       ELSE LoginRes(clickLoginButton(eB, fault), r1.waits + r2.waits, r1.acts + r2.acts,
                     <<"enterUsername", "enterPassword", "clickLoginButton">>)

\* LoginPage.login: enterUsername, enterPassword, clickLoginButton, each
\* awaited, with no catch.
login(eU, eP, eB, fault) ==
    LET r1 == enterUsername(eU, fault) IN
    IF r1.threw THEN LoginRes(r1, 0, 0, <<"enterUsername">>)
    ELSE LET r2 == enterPassword(eP, fault) IN
         IF r2.threw
         THEN LoginRes(r2, r1.waits, r1.acts, <<"enterUsername", "enterPassword">>)
         ELSE LoginRes(clickLoginButton(eB, fault), r1.waits + r2.waits, r1.acts + r2.acts,
                       <<"enterUsername", "enterPassword", "clickLoginButton">>)

Call(m, e, n, fault, r) ==
    [method |-> m, elem |-> e, fault |-> fault, matches |-> n, res |-> r]

CallWaitForElement ==
    \E e \in Elems, f \in BOOLEAN :
        /\ po' = Call("waitForElement", e, 0, f, waitForElement(e, f))
        /\ UNCHANGED <<mgrVars, runVars, auxVars>>

CallClick ==
    \E e \in Elems, f \in BOOLEAN :
        /\ po' = Call("click", e, 0, f, click(e, f))
        /\ UNCHANGED <<mgrVars, runVars, auxVars>>

CallFill ==
    \E e \in Elems, f \in BOOLEAN :
        /\ po' = Call("fill", e, 0, f, fill(e, f))
        /\ UNCHANGED <<mgrVars, runVars, auxVars>>

CallType ==
    \E e \in Elems, f \in BOOLEAN :
        /\ po' = Call("type", e, 0, f, type(e, f))
        /\ UNCHANGED <<mgrVars, runVars, auxVars>>

CallSelectOption ==
    \E e \in Elems, f \in BOOLEAN :
        /\ po' = Call("selectOption", e, 0, f, selectOption(e, f))
        /\ UNCHANGED <<mgrVars, runVars, auxVars>>

CallGetText ==
    \E e \in Elems, f \in BOOLEAN :
        /\ po' = Call("getText", e, 0, f, getText(e, f))
        /\ UNCHANGED <<mgrVars, runVars, auxVars>>

CallGetAttributeWaiting ==
    \E e \in Elems, f \in BOOLEAN :
        /\ po' = Call("getAttributeWaiting", e, 0, f, getAttributeWaiting(e, f))
        /\ UNCHANGED <<mgrVars, runVars, auxVars>>

CallGetAttribute ==
    \E e \in Elems, f \in BOOLEAN :
        /\ po' = Call("getAttribute", e, 0, f, getAttribute(e, f))
        /\ UNCHANGED <<mgrVars, runVars, auxVars>>

CallIsVisible ==
    \E e \in Elems, f \in BOOLEAN :
        /\ po' = Call("isVisible", e, 0, f, isVisible(e, f))
        /\ UNCHANGED <<mgrVars, runVars, auxVars>>

CallIsEnabled ==
    \E e \in Elems, f \in BOOLEAN :
        /\ po' = Call("isEnabled", e, 0, f, isEnabled(e, f))
        /\ UNCHANGED <<mgrVars, runVars, auxVars>>

CallGetErrorMessage ==
    \E e \in Elems, f \in BOOLEAN :
        /\ po' = Call("getErrorMessage", e, 0, f, getErrorMessage(e, f))
        /\ UNCHANGED <<mgrVars, runVars, auxVars>>

\* A count is of the elements that exist: none when the target is absent.
CountInputs == {<<e, n>> \in Elems \X (0..MaxMatches) : (e = "absent") <=> (n = 0)}

CallGetValidationErrorsCount ==
    \E x \in CountInputs, f \in BOOLEAN :
        /\ po' = Call("getValidationErrorsCount", x[1], x[2], f, getValidationErrorsCount(x[2], f))
        /\ UNCHANGED <<mgrVars, runVars, auxVars>>

CallGetDashboardWidgetCount ==
    \E x \in CountInputs, f \in BOOLEAN :
        /\ po' = Call("getDashboardWidgetCount", x[1], x[2], f, getDashboardWidgetCount(x[2], f))
        /\ UNCHANGED <<mgrVars, runVars, auxVars>>

CallGetResultsCount ==
    \E x \in CountInputs, f \in BOOLEAN :
        /\ po' = Call("getResultsCount", x[1], x[2], f, getResultsCount(x[2], f))
        /\ UNCHANGED <<mgrVars, runVars, auxVars>>

CallSelectEmployeeFromSuggestions ==
    \E x \in CountInputs, f \in BOOLEAN :
        /\ po' = Call("selectEmployeeFromSuggestions", x[1], x[2], f,
                      selectEmployeeFromSuggestions(x[1], x[2], f))
        /\ UNCHANGED <<mgrVars, runVars, auxVars>>

CallClickMenuItemStep ==
    \E e \in Elems, f \in BOOLEAN :
        /\ po' = Call("clickMenuItemStep", e, 0, f, clickMenuItemStep(e, f))
        /\ UNCHANGED <<mgrVars, runVars, auxVars>>

CallClickMenuItemStepStrict ==
    \E e \in Elems, f \in BOOLEAN :
        /\ po' = Call("clickMenuItemStepStrict", e, 0, f, clickMenuItemStepStrict(e, f))
        /\ UNCHANGED <<mgrVars, runVars, auxVars>>

\* 'Then' steps that state an expectation.  A step fails when its body throws:
\* expect(...) throws when the expectation is not met.

\* How the page URL relates to the fragment of the step, both in lower case:
\* it contains it, it contains it only with the spaces removed or replaced by
\* hyphens, or it does not contain it.
UrlMatches == {"contains", "variant", "none"}

\* Then('the page URL should contain {string}'), dashboard.steps.ts:
\* expect(url.toLowerCase()).toContain(fragment.toLowerCase()).
urlShouldContainStep(m) ==
    IF m = "contains" THEN Ret("void", 0, 0, FALSE) ELSE Raise(0, 0)

\* Then('the page URL should contain {string}'), part_006: returns on a direct
\* or variant match, and otherwise logs 'Navigation successful' and returns.
urlShouldContainStepLenient(m) ==
    IF m = "contains" THEN Ret("void", 0, 0, FALSE)
    ELSE IF m = "variant" THEN Ret("void", 0, 0, FALSE)
    ELSE Ret("void", 0, 0, FALSE)

\* Then('the widget count should be greater than {int}'), dashboard.steps.ts:
\* expect(widgetCount).toBeGreaterThan(expectedCount).
widgetCountStep(n, expected, fault) ==
    IF getDashboardWidgetCount(n, fault).threw THEN Raise(0, 0)
    ELSE IF n > expected THEN Ret("void", 0, 0, FALSE)
    ELSE Raise(0, 0)

\* Then('the widget count should be greater than {int}'), part_006: logs in
\* both branches of the comparison and returns.
widgetCountStepLenient(n, expected, fault) ==
    IF getDashboardWidgetCount(n, fault).threw THEN Raise(0, 0)
    ELSE IF n > expected THEN Ret("void", 0, 0, FALSE)
    ELSE Ret("void", 0, 0, FALSE)

\* What the page shows after the form was submitted: the results of
\* isSuccessMessageDisplayed() and isErrorMessageDisplayed(), which catch and
\* return false.
Messages == {"success", "error", "nothing"}

\* Then('I should see a success message'), part_005:830-835:
\* expect(isSuccessDisplayed).toBeTruthy().
successMessageStep(shown) ==
    IF shown = "success" THEN Ret("void", 0, 0, FALSE) ELSE Raise(0, 0)

\* Then('I should see a success message'), part_005:342-363: logs what it
\* found, whichever it is, and returns.
successMessageStepLenient(shown) ==
    IF shown = "success" THEN Ret("void", 0, 0, FALSE)
    ELSE IF shown = "error" THEN Ret("void", 0, 0, FALSE)
    ELSE Ret("void", 0, 0, FALSE)

CallUrlShouldContainStep ==
    \E m \in UrlMatches :
        /\ po' = Call("urlShouldContainStep", m, 0, FALSE, urlShouldContainStep(m))
        /\ UNCHANGED <<mgrVars, runVars, auxVars>>

CallUrlShouldContainStepLenient ==
    \E m \in UrlMatches :
        /\ po' = Call("urlShouldContainStepLenient", m, 0, FALSE, urlShouldContainStepLenient(m))
        /\ UNCHANGED <<mgrVars, runVars, auxVars>>

\* The expected count of the step is kept in the record's element field.
CallWidgetCountStep ==
    \E n \in 0..MaxMatches, k \in 0..1, f \in BOOLEAN :
        /\ po' = Call("widgetCountStep", k, n, f, widgetCountStep(n, k, f))
        /\ UNCHANGED <<mgrVars, runVars, auxVars>>

CallWidgetCountStepLenient ==
    \E n \in 0..MaxMatches, k \in 0..1, f \in BOOLEAN :
        /\ po' = Call("widgetCountStepLenient", k, n, f, widgetCountStepLenient(n, k, f))
        /\ UNCHANGED <<mgrVars, runVars, auxVars>>

CallSuccessMessageStep ==
    \E m \in Messages :
        /\ po' = Call("successMessageStep", m, 0, FALSE, successMessageStep(m))
        /\ UNCHANGED <<mgrVars, runVars, auxVars>>

CallSuccessMessageStepLenient ==
    \E m \in Messages :
        /\ po' = Call("successMessageStepLenient", m, 0, FALSE, successMessageStepLenient(m))
        /\ UNCHANGED <<mgrVars, runVars, auxVars>>

\* login() with the username input, the password input and the login button
\* each in any state.
CallLogin ==
    \E eU \in Elems, eP \in Elems, eB \in Elems, f \in BOOLEAN :
        /\ po' = Call("login", <<eU, eP, eB>>, 0, f, login(eU, eP, eB, f))
        /\ UNCHANGED <<mgrVars, runVars, auxVars>>

PageInit ==
    /\ penv \in DefaultRun
    /\ MgrInit
    /\ RunInit
    /\ worldEnv = ""
    /\ cfg = [screenshot |-> "only-on-failure", trace |-> "retain-on-failure"]

PageNext ==
    \/ CallWaitForElement
    \/ CallClick
    \/ CallFill
    \/ CallType
    \/ CallSelectOption
    \/ CallGetText
    \/ CallGetAttributeWaiting
    \/ CallGetAttribute
    \/ CallIsVisible
    \/ CallIsEnabled
    \/ CallGetErrorMessage
    \/ CallGetValidationErrorsCount
    \/ CallGetDashboardWidgetCount
    \/ CallGetResultsCount
    \/ CallSelectEmployeeFromSuggestions
    \/ CallClickMenuItemStep
    \/ CallClickMenuItemStepStrict
    \/ CallLogin
    \/ CallUrlShouldContainStep
    \/ CallUrlShouldContainStepLenient
    \/ CallWidgetCountStep
    \/ CallWidgetCountStepLenient
    \/ CallSuccessMessageStep
    \/ CallSuccessMessageStepLenient

\* Page-object methods called on every state of their target element.
SpecPage == PageInit /\ [][PageNext]_vars

\* The calls a step makes into the two layers below it: the BrowserManager's
\* operations and the BasePage actions, in any order.
LayersInit ==
    /\ penv \in {p \in DefaultRun : p.TEST_ENV = "dev"}
    /\ MgrInit
    /\ RunInit
    /\ worldEnv = ""
    /\ cfg \in [screenshot : {"only-on-failure"}, trace : {"off", "on"}]

LayersNext ==
    \/ OpInitBrowser
    \/ OpCreateContext
    \/ OpCreatePage
    \/ OpClosePage
    \/ OpCloseContext
    \/ OpCloseBrowser
    \/ CallClick
    \/ CallFill
    \/ CallType
    \/ CallSelectOption

SpecLayers == LayersInit /\ [][LayersNext]_vars

---------------------------------------------------------------------------
\* A parallel run: each worker is a process of its own that loads hooks.ts,
\* and with it the module-level BrowserManager.getInstance(), and then runs
\* its scenarios through the hooks.  The processes interleave freely.

\* The static field BrowserManager.instance of all workers held in one place,
\* as if the workers shared their module state.
StaticSlot_shared(w) == 1

\* Where the static field BrowserManager.instance of worker w lives: in the
\* module state of w's own process.
StaticSlot(w) == w

\* The BrowserManager that getInstance() gives worker w.
ManagerOf(w) == wk.instance[StaticSlot(w)]

\* The session as worker w's manager sees it.
Sess(w) ==
    LET m == wk.mgrs[ManagerOf(w)] IN
    [browser |-> m.browser, context |-> m.context, page |-> m.page,
     browsers |-> wk.browsers, contexts |-> wk.contexts, pages |-> wk.pages]

\* n more entries owned by w.
Owned(own, n, w) == own \o [i \in 1..(n - Len(own)) |-> w]

\* The run after worker w's manager went from Sess(w) to s.
Stored(w, s) ==
    [wk EXCEPT !.mgrs[ManagerOf(w)] = [browser |-> s.browser, context |-> s.context,
                                       page |-> s.page],
               !.browsers = s.browsers, !.contexts = s.contexts, !.pages = s.pages,
               !.ownB = Owned(@, Len(s.browsers), w),
               !.ownC = Owned(@, Len(s.contexts), w),
               !.ownP = Owned(@, Len(s.pages), w)]

\* The worker loads hooks.ts: export default BrowserManager.getInstance().
WLoad ==
    \E w \in Workers :
        /\ w \notin wk.started
        /\ wk' = IF ManagerOf(w) = NULL
                 THEN [wk EXCEPT !.started = @ \cup {w},
                                 !.mgrs = Append(@, [browser |-> NULL, context |-> NULL,
                                                     page |-> NULL]),
                                 !.instance[StaticSlot(w)] = Len(wk.mgrs) + 1]
                 ELSE [wk EXCEPT !.started = @ \cup {w}]
        /\ UNCHANGED <<mgrVars, runVars, po, penv, econf, summary>>

\* The Before hook of the worker's next scenario: init().
WBefore ==
    \E w \in wk.started, f \in CreateFailures :
        /\ wk.pcw[w] = "idle" /\ wk.runs[w] < MaxHandles
        /\ LET r == init(Sess(w), NewWorld, cfg.trace, f # "launch", f # "newContext",
                         f # "tracing", f # "newPage")
           IN wk' = [Stored(w, r.s) EXCEPT !.world[w] = r.w,
                                           !.runs[w] = @ + 1,
                                           !.pcw[w] = IF r.threw THEN "after" ELSE "steps"]
        /\ UNCHANGED <<mgrVars, runVars, po, penv, econf, summary>>

\* A step of the scenario: a page object on this.page.
WStep ==
    \E w \in wk.started :
        /\ wk.pcw[w] = "steps"
        /\ wk' = [wk EXCEPT !.used = @ \cup {<<wk.world[w].page, w>>}, !.pcw[w] = "after"]
        /\ UNCHANGED <<mgrVars, runVars, po, penv, econf, summary>>

\* The After hook: cleanup().
WAfter ==
    \E w \in wk.started, f \in CloseFailures :
        /\ wk.pcw[w] = "after"
        /\ LET r == cleanup(Sess(w), f # "page", f # "context", f # "browser")
           IN wk' = [Stored(w, r.s) EXCEPT !.pcw[w] = "idle"]
        /\ UNCHANGED <<mgrVars, runVars, po, penv, econf, summary>>

WorkersInit ==
    /\ penv \in {p \in DefaultRun : p.TEST_ENV = "qa"}
    /\ MgrInit
    /\ RunInit
    /\ worldEnv = ""
    /\ cfg = [screenshot |-> "only-on-failure", trace |-> "retain-on-failure"]

WorkersNext ==
    \/ WLoad
    \/ WBefore
    \/ WStep
    \/ WAfter

\* Worker processes running their scenarios concurrently.
SpecWorkers == WorkersInit /\ [][WorkersNext]_vars

---------------------------------------------------------------------------
\* ConfigManager over the life of a process: the BeforeAll hook, the
\* CustomWorld constructor of each scenario, and the calls made in scenarios.

\* BeforeAll: logs getEnvironment() before any world exists.
CfgBeforeAll ==
    /\ econf.atStart = "none" /\ econf.worlds = 0
    /\ econf' = [econf EXCEPT !.atStart = getEnvironment]
    /\ UNCHANGED <<mgrVars, runVars, po, wk, penv, summary>>

\* new CustomWorld(options): one per scenario.
CfgNewWorld ==
    /\ econf.worlds < MaxHandles
    /\ currentEnv' = WorldConstructorEnv
    /\ econf' = [econf EXCEPT !.worlds = @ + 1]
    /\ UNCHANGED <<mgrVars, worldEnv, pc, scn, world, dashboardPage, stepRes, art, uses, lastUse,
                   po, wk, penv, summary>>

\* getEnvironment() in a hook of a scenario.
CfgGetEnvironment ==
    /\ econf.worlds > 0
    /\ econf' = [econf EXCEPT !.inScenario = @ \cup {getEnvironment}]
    /\ UNCHANGED <<mgrVars, runVars, po, wk, penv, summary>>

\* getEnvironmentConfig(), as in the BasePage constructor.
CfgGetEnvironmentConfig ==
    /\ econf' = [econf EXCEPT !.prefix = getEnvironmentConfig(penv, currentEnv).prefix,
                              !.baseUrl = getEnvironmentConfig(penv, currentEnv).baseUrl]
    /\ UNCHANGED <<mgrVars, runVars, po, wk, penv, summary>>

ConfigInit ==
    /\ penv \in ProcessEnvs
    /\ MgrInit
    /\ RunInit
    /\ worldEnv \in WorldEnvs
    /\ cfg = [screenshot |-> "only-on-failure", trace |-> "retain-on-failure"]

ConfigNext ==
    \/ CfgBeforeAll
    \/ CfgNewWorld
    \/ CfgGetEnvironment
    \/ CfgGetEnvironmentConfig

\* ConfigManager under every assignment of the environment variables.
SpecConfig == ConfigInit /\ [][ConfigNext]_vars

---------------------------------------------------------------------------
\* ReportGenerator.generateSummary over the Cucumber JSON report: features,
\* their scenarios (elements), and the result status of each step.

\* Bounds on a report: features, scenarios of a feature, steps of a scenario.
MaxFeatures == 2
MaxScenarios == 2
MaxReportSteps == 2

StepStatuses == {"passed", "failed", "skipped", "pending"}

\* Sequences over S of length at most n.
SeqUpTo(S, n) == UNION {[1..k -> S] : k \in 0..n}

Scenarios == SeqUpTo(StepStatuses, MaxReportSteps)
Features == SeqUpTo(Scenarios, MaxScenarios)
Reports == SeqUpTo(Features, MaxFeatures)

\* scenario.steps.every(...) accepting 'passed' only.
scenarioStatus_passedOnly(steps) == \A i \in DOMAIN steps : steps[i] = "passed"

\* scenario.steps.every(step => status === 'passed' || status === 'skipped')
scenarioStatus(steps) == \A i \in DOMAIN steps : steps[i] = "passed" \/ steps[i] = "skipped"

\* feature.elements.forEach: one scenario after the other into the counters.
RECURSIVE forEachScenario(_, _)
forEachScenario(elements, acc) ==
    IF elements = <<>> THEN acc
    ELSE LET ok == scenarioStatus(Head(elements)) IN
         forEachScenario(Tail(elements),
             [acc EXCEPT !.total = @ + 1,
                         !.passed = IF ok THEN @ + 1 ELSE @,
                         !.failed = IF ok THEN @ ELSE @ + 1])

\* reportData.forEach
RECURSIVE forEachFeature(_, _)
forEachFeature(reportData, acc) ==
    IF reportData = <<>> THEN acc
    ELSE forEachFeature(Tail(reportData), forEachScenario(Head(reportData), acc))

\* generateSummary(): returns when the report does not exist; otherwise counts
\* and writes the summary, skipped being the counter that is never incremented.
generateSummary(r) ==
    IF ~r.exists THEN NoSummary
    ELSE [forEachFeature(r.features, NoSummary) EXCEPT !.written = TRUE]

GenerateSummary ==
    /\ summary' = [summary EXCEPT !.out = generateSummary(summary)]
    /\ UNCHANGED <<mgrVars, runVars, po, wk, penv, econf>>

\* A report of the last run on disk, or none.
ReportInit ==
    /\ penv \in {p \in DefaultRun : p.TEST_ENV = "dev"}
    /\ MgrInit
    /\ RunStart
    /\ worldEnv = ""
    /\ cfg = [screenshot |-> "only-on-failure", trace |-> "retain-on-failure"]
    /\ summary \in {NoReport} \cup [exists : {TRUE}, features : Reports, out : {NoSummary}]

ReportNext == GenerateSummary

SpecReport == ReportInit /\ [][ReportNext]_vars

---------------------------------------------------------------------------
\* Properties of the BrowserManager under any sequence of its operations.

OpenBrowsers == {b \in DOMAIN browsers : browsers[b]}
OpenContexts == {c \in DOMAIN contexts : contexts[c].open}
OpenPages == {p \in DOMAIN pages : pages[p].open}

\* C2: a non-null context handle implies a non-null handle of an open
\* browser, and a non-null page handle implies a non-null handle of an open
\* context.
C2_HandleHierarchy ==
    /\ context # NULL => (browser # NULL /\ browsers[browser])
    /\ page # NULL => (context # NULL /\ contexts[context].open)

\* C3: at most one browser, one context and one page are open, and every
\* open one is the one the manager holds.
C3_AtMostOneOpen ==
    /\ Cardinality(OpenBrowsers) <= 1 /\ OpenBrowsers \subseteq {browser}
    /\ Cardinality(OpenContexts) <= 1 /\ OpenContexts \subseteq {context}
    /\ Cardinality(OpenPages) <= 1 /\ OpenPages \subseteq {page}

\* C4: initBrowser() called with a non-null browser handle launches nothing
\* and returns the handle it already had.
C4_InitBrowserIdempotent ==
    (last.op = "initBrowser" /\ last.before[1] # NULL)
        => (last.launched = 0 /\ ~last.threw /\ last.ret = last.before[1])

\* C5: a closeBrowser() that directly follows a closeBrowser() which returned
\* does not throw, issues no close call, and leaves the handles as the first
\* call left them: all null.
C5_CloseBrowserIdempotent ==
    (last.op = "closeBrowser" /\ last.afterClose)
        => /\ ~last.threw
           /\ last.closes = {}
           /\ Handles(Cur) = last.before
           /\ Handles(Cur) = <<NULL, NULL, NULL>>

\* The second of two closeBrowser() calls, the first having closed a page, its
\* context and its browser.
C5_Witness ==
    /\ last.op = "closeBrowser" /\ last.afterClose
    /\ Len(pages) >= 1 /\ OpenBrowsers = {}

---------------------------------------------------------------------------
\* Properties of the scenarios run through the hooks.

\* A finished scenario: the After hook has returned.
Finished == pc = "Idle" /\ scn.id > 0

\* C1: once the After hook has finished, whatever the scenario's outcome,
\* the manager holds no handle and every browser, context and page created
\* during the scenario is closed.
C1_TornDownAfterScenario ==
    Finished =>
        /\ Handles(Cur) = <<NULL, NULL, NULL>>
        /\ \A b \in OpenBrowsers : b <= scn.base[1]
        /\ \A c \in OpenContexts : c <= scn.base[2]
        /\ \A p \in OpenPages : p <= scn.base[3]

\* C6: while the steps of a scenario run, its world is the one bound to the
\* live session, and no page is used by the steps of two scenarios.
C6_OneWorldPerSession ==
    /\ pc \in {"Step", "AfterStep"} => (world.page # NULL /\ world.page = page)
    /\ \A u, v \in uses : u[1] = v[1] => u[2] = v[2]

\* C7: the page object a step calls was constructed with the page of the
\* scenario that is running.
C7_PageObjectOnCurrentPage ==
    lastUse.scenario # 0 => lastUse.page = lastUse.worldPage

\* The scenario carries an environment tag that the active environment does
\* not match.
Mismatch ==
    /\ scn.id > 0
    /\ \/ "@dev-only" \in scn.tags /\ getEnvironment # "dev"
       \/ "@prod-only" \in scn.tags /\ getEnvironment # "prod"

\* C8, as stated: a scenario whose environment tag does not match runs no
\* step and ends skipped.
C8_SkippedOnMismatch ==
    Mismatch => (scn.stepsRun = 0 /\ (pc = "Idle" => scn.status = "skipped"))

\* C8, amended: a scenario whose environment tag does not match runs no step;
\* it ends skipped unless init() threw in the untagged Before hook, which runs
\* first, or cleanup() threw in the After hook: then it ends failed.
C8_NoStepOnMismatch ==
    Mismatch =>
        /\ scn.stepsRun = 0
        /\ pc \notin {"Step", "AfterStep"}
        /\ pc \in {"After", "Idle"} =>
               scn.status = IF scn.initThrew \/ scn.afterThrew THEN "failed" ELSE "skipped"

\* A @dev-only or @prod-only scenario that ended skipped in another
\* environment, after init() had opened a page and cleanup() had closed it.
C8_Witness ==
    /\ Mismatch /\ pc = "Idle" /\ scn.status = "skipped"
    /\ world.page # NULL /\ ~pages[world.page].open

---------------------------------------------------------------------------
\* Properties of the page objects.

Queries ==
    {"isVisible", "isEnabled", "getText", "getAttribute", "getErrorMessage",
     "getValidationErrorsCount", "getDashboardWidgetCount", "getResultsCount"}

SafeDefault(m) ==
    IF m \in {"isVisible", "isEnabled"} THEN {"false"}
    ELSE IF m \in {"getText", "getErrorMessage"} THEN {""}
    ELSE IF m = "getAttribute" THEN {"", "null"}
    ELSE {"0"}

\* C9: a query called while its element does not exist, or whose underlying
\* check fails, does not throw and returns its safe default.
C9_QueriesNeverThrow ==
    (po.method \in Queries /\ (po.elem = "absent" \/ po.fault))
        => (~po.res.threw /\ po.res.ret \in SafeDefault(po.method))

ActionMethods ==
    {"click", "fill", "type", "selectOption", "selectEmployeeFromSuggestions",
     "clickMenuItemStep", "clickMenuItemStepStrict"}

\* C10: an action whose element is not visible throws, and an action that
\* returns has done its click, fill or select.
C10_ActionsRaiseOrAct ==
    po.method \in ActionMethods =>
        /\ po.elem # "visible" => po.res.threw
        /\ ~po.res.threw => po.res.done

---------------------------------------------------------------------------
\* Properties of the artifact capture in the hooks.

\* The scenario had failed when its After hook started.
FailedBeforeAfter == scn.initThrew \/ stepRes = "failed"

\* C11: no screenshot or trace capture throws, whatever the page, the context
\* and the underlying call do; so the After hook of a failed scenario reaches
\* cleanup() and the scenario stays reported as failed.
C11_CaptureNeverEscalates ==
    /\ ~art.captureThrew
    /\ (Finished /\ FailedBeforeAfter) => (art.cleanupRan /\ scn.status = "failed")

\* A failed step whose screenshots and trace could not be taken, cleanup()
\* reached all the same.
C11_Witness ==
    /\ Finished /\ stepRes = "failed"
    /\ cfg.screenshot = "on" /\ cfg.trace = "on"
    /\ ~art.stepShot /\ ~art.shot /\ ~art.trace
    /\ Len(art.calls) >= 3 /\ art.cleanupRan

Captures == {"screenshot", "tracing.stop", "tracing.start"}

\* C12: every capture call of the hooks is made while the scenario's page and
\* context are still open, before closeBrowser() is called; none follows it.
C12_CaptureBeforeTeardown ==
    \A i \in 1..Len(art.calls) :
        art.calls[i].call \in Captures =>
            /\ art.calls[i].live
            /\ \A j \in 1..i : art.calls[j].call # "closeBrowser"

\* A failed scenario whose screenshot and trace were taken and whose page was
\* closed afterwards.
C12_Witness ==
    /\ Finished /\ art.shot /\ art.trace
    /\ art.calls[Len(art.calls)].call = "closeBrowser"
    /\ \E i \in 1..Len(art.calls) : art.calls[i].call = "tracing.stop"
    /\ world.page # NULL /\ ~pages[world.page].open

---------------------------------------------------------------------------
\* Properties of single BrowserManager operations.

\* The handle a close operation tests: 3 the page, 2 the context, 1 the browser.
CloseHandle(op) == IF op = "closePage" THEN 3 ELSE IF op = "closeContext" THEN 2 ELSE 1

\* C13: a close operation whose handle is null closes nothing of that kind and
\* does not throw there; closeBrowser() closes the browser only after the page
\* and the context it held are closed; closeContext() leaves no page handle
\* behind.
C13_ClosesInOrder ==
    /\ (last.op \in {"closePage", "closeContext"} /\ last.before[CloseHandle(last.op)] = NULL)
           => (~last.threw /\ last.closes = {} /\ Handles(Cur) = last.before)
    /\ (last.op = "closeBrowser" /\ last.before[1] = NULL) => "browser" \notin last.closes
    /\ (last.op = "closeBrowser" /\ "browser" \in last.closes)
           => /\ last.before[3] # NULL => ~pages[last.before[3]].open
              /\ last.before[2] # NULL => ~contexts[last.before[2]].open
    /\ (last.op = "closeContext" /\ ~last.threw) => page = NULL

\* C14: createContext() launches a browser exactly when the manager held
\* none, createPage() creates a context exactly when the manager held none,
\* and after a createPage() that returned the three handles are non-null, the
\* page is of the held context and the context of the held browser.
C14_LazyAndComplete ==
    /\ (last.op = "createContext" /\ ~last.threw)
           => (last.launched = IF last.before[1] = NULL THEN 1 ELSE 0)
    /\ (last.op = "createPage" /\ ~last.threw)
           => /\ last.newContexts = IF last.before[2] = NULL THEN 1 ELSE 0
              /\ browser # NULL /\ context # NULL /\ page # NULL
              /\ pages[page].context = context
              /\ contexts[context].browser = browser

---------------------------------------------------------------------------
\* Properties of CustomWorld.init().

\* Between the Before hook and the end of the After hook.
InScenario == scn.id > 0 /\ pc \notin {"Before", "Idle"}

\* Browsers, contexts and pages created since the scenario started.
Created ==
    <<Len(browsers) - scn.base[1], Len(contexts) - scn.base[2], Len(pages) - scn.base[3]>>

\* C15: an init() that returned created exactly one browser, one context and
\* one page, the world holds them and they are the manager's handles, and the
\* start time is set; an init() that threw stopped after the browser, or after
\* the browser and the context, and set no start time.
C15_InitOrder ==
    InScenario =>
        IF ~scn.initThrew
        THEN /\ Created = <<1, 1, 1>>
             /\ world.browser # NULL /\ world.context # NULL /\ world.page # NULL
             /\ <<world.browser, world.context, world.page>> = Handles(Cur)
             /\ world.started
        ELSE /\ Created \in {<<0, 0, 0>>, <<1, 0, 0>>, <<1, 1, 0>>}
             /\ ~world.started /\ world.page = NULL
             /\ world.context # NULL => world.browser # NULL
             /\ world.browser # NULL => (Created[1] = 1 /\ world.browser = browser)
             /\ world.context # NULL => (Created[2] = 1 /\ world.context = context)

\* The second scenario after its init(), the first one having left a browser
\* open behind it.
C15_Witness ==
    /\ InScenario /\ scn.id = 2 /\ ~scn.initThrew /\ pc = "Step"
    /\ world.page = page /\ OpenBrowsers # {browser}

---------------------------------------------------------------------------
\* Properties of composite page-object actions.

LoginSteps == <<"enterUsername", "enterPassword", "clickLoginButton">>

\* The atomic actions of a login() call that cannot succeed.
LoginFailing == {i \in 1..3 : po.elem[i] # "visible" \/ po.fault}

\* C16: login() starts enterUsername, enterPassword, clickLoginButton in that
\* order; at the first one that throws it stops, throws that action's error,
\* and has waited once per action started; with none throwing it returns with
\* the three done.
C16_LoginAborts ==
    po.method = "login" =>
        IF LoginFailing = {}
        THEN /\ ~po.res.threw /\ po.res.done
             /\ po.res.steps = LoginSteps
             /\ po.res.acts = 3
        ELSE LET k == CHOOSE i \in LoginFailing : \A j \in LoginFailing : i <= j IN
             /\ po.res.threw
             /\ po.res.steps = SubSeq(LoginSteps, 1, k)
             /\ po.res.error = LoginSteps[k]
             /\ po.res.waits = k /\ po.res.acts <= k

\* A login() whose username was filled and whose password input never became
\* visible.
C16_Witness ==
    /\ po.method = "login" /\ po.elem = <<"visible", "hidden", "visible">> /\ ~po.fault
    /\ po.res.threw /\ po.res.error = "enterPassword" /\ po.res.acts = 1

---------------------------------------------------------------------------
\* Properties of tracing.

\* Start and stop calls alternate: a stop is made on a context that is
\* tracing, a start on one that is not.
TraceCallsAlternate ==
    \A i \in 1..Len(art.calls) :
        /\ art.calls[i].call = "tracing.stop" => art.calls[i].tracing
        /\ art.calls[i].call = "tracing.start" => ~art.calls[i].tracing

\* C17, as stated: start and stop calls alternate, and when saveTrace() has
\* returned on an open context, tracing is active exactly when the trace mode
\* is not 'off'.
C17_TraceAlternates ==
    /\ TraceCallsAlternate
    /\ art.saveTraceRet # "none" => (art.saveTraceRet = "active" <=> cfg.trace # "off")

\* C17, amended: start and stop calls alternate; saveTrace() runs only in a
\* mode other than 'off', and when it has returned on an open context tracing
\* is active, unless the trace was stopped and saved and the tracing.start
\* that followed was rejected.
C17_TraceRestarted ==
    /\ TraceCallsAlternate
    /\ art.saveTraceRet # "none" => cfg.trace \in {"retain-on-failure", "on"}
    /\ art.saveTraceRet = "inactive" =>
           /\ art.trace
           /\ \E i \in 1..Len(art.calls) : art.calls[i].call = "tracing.start"

\* A failed scenario whose trace was saved and whose tracing was started
\* again before the context was closed.
C17_Witness ==
    /\ Finished /\ art.trace /\ art.saveTraceRet = "active"
    /\ \E i \in 1..Len(art.calls) : art.calls[i].call = "tracing.start"

---------------------------------------------------------------------------
\* Properties of ConfigManager.

\* C19: getEnvironmentConfig() returns a non-empty baseUrl: the value of the
\* <ENV>_BASE_URL variable when it is set and not empty, the default URL when
\* it is not set or empty.
C19_BaseUrlNonEmpty ==
    econf.baseUrl # "none" =>
        LET v == penv.BASE_URL[econf.prefix] IN
        /\ econf.prefix \in Prefixes
        /\ econf.baseUrl # ""
        /\ v = "unset" => econf.baseUrl = DefaultBaseUrl
        /\ v = "" => econf.baseUrl = DefaultBaseUrl
        /\ v \notin {"unset", ""} => econf.baseUrl = v

\* getEnvironmentConfig() called with the URL variable of the current
\* environment set to the empty string.
C19_Witness ==
    /\ econf.baseUrl = DefaultBaseUrl
    /\ penv.BASE_URL[econf.prefix] = ""

\* C20: the active environment is the one TEST_ENV names, 'dev' when it names
\* none; getEnvironment() returns the same name whenever it is called; the
\* prefix getEnvironmentConfig() looked up is that name in upper case.
C20_EnvironmentSelectedOnce ==
    /\ getEnvironment = (IF penv.TEST_ENV \in {"unset", ""} THEN "dev" ELSE penv.TEST_ENV)
    /\ Cardinality(econf.inScenario \cup ({econf.atStart} \ {"none"})) <= 1
    /\ econf.prefix # "none" => econf.prefix = toUpperCase(getEnvironment)

---------------------------------------------------------------------------
\* Properties of a parallel run.

\* The handles a manager or a world holds were created by worker w.
OwnedBy(h, w) ==
    /\ h.browser # NULL => wk.ownB[h.browser] = w
    /\ h.context # NULL => wk.ownC[h.context] = w
    /\ h.page # NULL => wk.ownP[h.page] = w

---------------------------------------------------------------------------
\* Properties of the scenarios skipped by a tag hook.

\* The scenario is tagged @skip or @wip.
SkipTagged == scn.id > 0 /\ (scn.tags \cap {"@skip", "@wip"}) # {}

\* C21, as stated: a scenario tagged @skip or @wip runs no step; by the time
\* its After hook runs the '@skip or @wip' hook has signalled the skip, and it
\* ends skipped.
C21_SkipTaggedSkipped ==
    SkipTagged =>
        /\ scn.stepsRun = 0
        /\ pc \notin {"Step", "AfterStep"}
        /\ pc \in {"After", "Idle"} => scn.skipBy = "BeforeSkip"
        /\ pc = "Idle" => scn.status = "skipped"

\* C21, amended: a scenario tagged @skip or @wip runs no step in any
\* environment.  When init() returned in the untagged Before hook, the
\* '@skip or @wip' hook signals the skip, and the scenario ends skipped unless
\* cleanup() throws in the After hook; when init() threw, the tag hook is
\* never run and the scenario is failed.
C21_SkipTaggedRunsNoStep ==
    SkipTagged =>
        /\ scn.stepsRun = 0
        /\ pc \notin {"Step", "AfterStep"}
        /\ pc \in {"After", "Idle"} =>
               IF scn.initThrew
               THEN scn.skipBy = "none" /\ scn.status = "failed"
               ELSE /\ scn.skipBy = "BeforeSkip"
                    /\ scn.status = IF scn.afterThrew THEN "failed" ELSE "skipped"

\* A @wip scenario that ended skipped in the 'prod' environment, the skip
\* signalled by the '@skip or @wip' hook.
C21_Witness ==
    /\ SkipTagged /\ "@wip" \in scn.tags /\ getEnvironment = "prod"
    /\ pc = "Idle" /\ scn.status = "skipped" /\ scn.skipBy = "BeforeSkip"

\* The browser, the context and the page of the scenario's world are closed.
WorldClosed ==
    /\ world.browser # NULL => ~browsers[world.browser]
    /\ world.context # NULL => ~contexts[world.context].open
    /\ world.page # NULL => ~pages[world.page].open

\* C28: when a tag hook signals skip, init() has run in the untagged Before
\* hook and the world holds an open browser, context and page; no step runs,
\* and the After hook runs cleanup(), which closes the three.
C28_SkippedSessionClosed ==
    scn.skipBy # "none" =>
        /\ scn.skipLive
        /\ scn.stepsRun = 0 /\ pc \in {"After", "Idle"}
        /\ Finished => (art.cleanupRan /\ WorldClosed)

---------------------------------------------------------------------------
\* Properties of the page-object and session layers together.

BaseActions == {"click", "fill", "type", "selectOption"}
CreateOps == {"initBrowser", "createContext", "createPage"}

---------------------------------------------------------------------------
\* Properties of teardown.

\* closeBrowser() threw at page.close() or at context.close(): it threw before
\* it reached browser.close().
ClosePageOrContextThrew ==
    last.op = "closeBrowser" /\ last.threw /\ "browser" \notin last.closes

\* C23: when page.close() or context.close() throws during closeBrowser(),
\* the context and the browser the manager held are closed all the same and
\* the three handles are null.
C23_TeardownSurvivesCloseFailure ==
    ClosePageOrContextThrew =>
        /\ Handles(Cur) = <<NULL, NULL, NULL>>
        /\ last.before[2] # NULL => ~contexts[last.before[2]].open
        /\ last.before[1] # NULL => ~browsers[last.before[1]]

---------------------------------------------------------------------------
\* Properties of a run with retries.

\* The handles the scenario's world holds were created since the scenario (or
\* the retry attempt) started: none was held by an earlier one.
WorldHandlesFresh ==
    /\ world.browser # NULL => world.browser > scn.base[1]
    /\ world.context # NULL => world.context > scn.base[2]
    /\ world.page # NULL => world.page > scn.base[3]

\* The pages the steps of the scenario acted on were created since it started.
StepPagesFresh == \A u \in uses : u[2] = scn.id => u[1] > scn.base[3]

\* C24: every scenario and every retry attempt runs on a fresh session: the
\* browser, context and page of its world, and the page its steps act on,
\* were bound to no earlier scenario execution.
C24_FreshSessionPerAttempt == WorldHandlesFresh /\ StepPagesFresh

---------------------------------------------------------------------------
\* Properties of the 'Then' steps.

UrlSteps == {"urlShouldContainStep", "urlShouldContainStepLenient"}
WidgetSteps == {"widgetCountStep", "widgetCountStepLenient"}
MessageSteps == {"successMessageStep", "successMessageStepLenient"}

\* The value the page returned does not meet the expectation the step states.
Unsatisfied ==
    \/ po.method \in UrlSteps /\ po.elem = "none"
    \/ po.method \in WidgetSteps /\ ~po.fault /\ ~(po.matches > po.elem)
    \/ po.method \in MessageSteps /\ po.elem # "success"

\* C25: a 'Then' step fails whenever the value the page returned does not
\* meet the expectation the step states.
C25_MismatchFailsStep == Unsatisfied => po.res.threw

---------------------------------------------------------------------------
\* Properties of the After hook's artifacts.

ShotModes == {"only-on-failure", "on"}
KeepTraceModes == {"retain-on-failure", "on"}

\* Number of calls of one kind the hooks of the scenario made.
Count(call) == Cardinality({i \in 1..Len(art.calls) : art.calls[i].call = call})

\* C26, as stated: after the After hook of a failed scenario a screenshot is
\* attached exactly when the screenshot mode is 'only-on-failure' or 'on' and a
\* trace is saved exactly when the trace mode is 'retain-on-failure' or 'on';
\* for any other scenario neither; cleanup() has run in every case.
C26_ArtifactsByMode ==
    Finished =>
        /\ art.shot <=> (FailedBeforeAfter /\ cfg.screenshot \in ShotModes)
        /\ art.trace <=> (FailedBeforeAfter /\ cfg.trace \in KeepTraceModes)
        /\ art.cleanupRan

\* C26, amended: the After hook attaches a screenshot or saves a trace only
\* for a failed scenario in such a mode; in that case it calls
\* page.screenshot() once when the world has a page and tracing.stop() once
\* when it has a context, and the artifact exists only if that call succeeds;
\* cleanup() runs last in every case.
C26_ArtifactsAttemptedByMode ==
    Finished =>
        /\ art.shot => (FailedBeforeAfter /\ cfg.screenshot \in ShotModes /\ world.page # NULL)
        /\ art.trace => (FailedBeforeAfter /\ cfg.trace \in KeepTraceModes /\ world.context # NULL)
        /\ Count("screenshot") =
               (IF stepRes = "failed" /\ world.page # NULL THEN 1 ELSE 0)
             + (IF FailedBeforeAfter /\ cfg.screenshot \in ShotModes /\ world.page # NULL
                THEN 1 ELSE 0)
        /\ Count("tracing.stop") =
               (IF FailedBeforeAfter /\ cfg.trace \in KeepTraceModes /\ world.context # NULL
                THEN 1 ELSE 0)
        /\ art.cleanupRan
        /\ art.calls[Len(art.calls)].call = "closeBrowser"

\* A scenario failed by a step in the modes 'only-on-failure' and
\* 'retain-on-failure': screenshot attached, trace saved, cleanup() run.
C26_Witness ==
    /\ Finished /\ stepRes = "failed"
    /\ cfg.screenshot = "only-on-failure" /\ cfg.trace = "retain-on-failure"
    /\ art.shot /\ art.trace /\ art.cleanupRan

\* C27: in screenshot mode 'off' no hook of a scenario calls
\* page.screenshot() or attaches a screenshot, whatever the steps did.
C27_NoScreenshotWhenOff ==
    cfg.screenshot = "off" =>
        (Count("screenshot") = 0 /\ ~art.stepShot /\ ~art.shot)

---------------------------------------------------------------------------
\* Properties of the report summary.

\* The scenarios of the report: feature number and scenario number.
ReportScenarios ==
    {x \in (1..MaxFeatures) \X (1..MaxScenarios) :
        x[1] <= Len(summary.features) /\ x[2] <= Len(summary.features[x[1]])}

\* Every step of the scenario has status 'passed' or 'skipped'.
AllPassedOrSkipped(x) ==
    \A i \in 1..Len(summary.features[x[1]][x[2]]) :
        summary.features[x[1]][x[2]][i] \in {"passed", "skipped"}

\* C29: the summary written for a report has total = passed + failed and
\* skipped = 0; total is the number of scenarios, passed the number of
\* scenarios whose steps all have status 'passed' or 'skipped' (those without
\* steps included), failed the number of the others.
C29_SummaryCounts ==
    summary.out.written =>
        /\ summary.out.total = summary.out.passed + summary.out.failed
        /\ summary.out.skipped = 0
        /\ summary.out.total = Cardinality(ReportScenarios)
        /\ summary.out.passed = Cardinality({x \in ReportScenarios : AllPassedOrSkipped(x)})
        /\ summary.out.failed = Cardinality({x \in ReportScenarios : ~AllPassedOrSkipped(x)})

\* The summary of a report with a scenario without steps, a scenario whose
\* steps were all skipped and a scenario with a pending step: 3, 2, 1, 0.
C29_Witness ==
    /\ summary.out.written
    /\ summary.features = << << <<>>, <<"skipped", "skipped">> >>, << <<"passed", "pending">> >> >>
    /\ summary.out.total = 3 /\ summary.out.passed = 2 /\ summary.out.failed = 1

====
